---- MODULE Spec2Model ----
(***************************************************************************)
(* browserd: a captured window is streamed over a peer connection and the  *)
(* viewer's input is replayed on it.  The module models                    *)
(*   - the provider's input handler (Input, stream-provider main.ts),      *)
(*   - the consumer's connect()/signIn() (stream-consumer main.ts),        *)
(*   - the provider's Application.boot() (stream-provider application.ts). *)
(* Strings the code inspects character by character (keyboard keys) are    *)
(* tuples of one-character strings: "Up" is <<"U", "p">>.                  *)
(***************************************************************************)
EXTENDS Integers, Sequences, FiniteSets, TLC

VARIABLES
  \* ---- provider input handler (Input) ----
  inMsg,      \* the Input Message the 'data' handler processed last
  ipcSent,    \* the ipcRenderer.send calls that message caused, in order
  inRaised,   \* the error processAndRaiseMessage threw for it, or "none"
  inPrev,     \* type, version and outcome of the message processed before it
  \* ---- consumer: one call of signIn(signalProvider) ----
  siCall,     \* "idle", "awaiting", "returned" or "threw"
  siPeers,    \* the roster signalProvider.signIn resolved with
  siId,       \* signalProvider.id after the sign-in
  siResult,   \* the id signIn returned, or the error it threw
  \* ---- consumer: connect() ----
  cSession,   \* one record per connect() invocation, in invocation order
  cCalls,     \* the consumer's signIn and signOut calls to its signaling channels, in order
  \* ---- provider (Application.boot) ----
  pBoot,      \* position of boot(): "start", "awaitSignIn", "running", "failed"
  pCalls,     \* the provider's calls to the signaling channel, in order
  pUuid,      \* number of uuid() values drawn so far
  pPeer,      \* the peer connection webrtcProvider holds: [gen, state, signalled, first]
  pHandlers,  \* one record per 'disconnect' event: its handler's position
  pRegistered,   \* the participant names registered with the signaling channel
  pChannelName,  \* the name signalProvider is signed in under, 0 when signed out
  pRemotePeerId, \* boot()'s remotePeerId
  pSends,     \* the ids the provider's signalProvider.send calls were addressed to, in order
  pThrew,     \* whether a 'peer-message' handler threw (signal on a closed peer)
  pRoster,    \* the roster boot()'s sign-in resolved with, NoRoster before
  \* ---- negotiation: the handlers between the two peer connections ----
  ngWire,     \* the messages signalProvider.send was given, not yet delivered
  ngHeard,    \* per role, the 'peer-message' events its channel emitted, in order,
              \* each with whether its handler threw
  ngFed,      \* per role, the messages handed to its peer connection's signal()
  ngRemotePeerId, \* the provider's remotePeerId
  ngErrors,   \* per role, the signaling 'error' events its handler has logged
  ngPeer,     \* per role, its peer connection: "none", "live" or "closed"
  \* ---- consumer: one session's peer, startStreaming and InputMonitor ----
  stPeer,     \* the SimplePeer: "live", "connected" or "closed"
  stMonitor,  \* whether startStreaming has run (an InputMonitor listens)
  stOccurred, \* the last local input occurrence, and the peer and monitor then
  stSent,     \* the peer.send calls that occurrence caused, in order
  \* ---- provider: the main process's globals and the streamer preload ----
  mGlobal,    \* (global as any)[K_BROWSER_STORAGE] of the main process
  prRuns      \* one record per run of the preload script, in starting order

inputVars == <<inMsg, ipcSent, inRaised, inPrev>>
signInVars == <<siCall, siPeers, siId, siResult>>
consumerVars == <<cSession, cCalls>>
providerVars == <<pBoot, pCalls, pUuid, pPeer, pHandlers, pRegistered, pChannelName,
                  pRemotePeerId, pSends, pThrew, pRoster>>
negotiationVars == <<ngWire, ngHeard, ngFed, ngRemotePeerId, ngErrors, ngPeer>>
streamingVars == <<stPeer, stMonitor, stOccurred, stSent>>
preloadVars == <<mGlobal, prRuns>>
vars == <<inMsg, ipcSent, inRaised, inPrev, siCall, siPeers, siId, siResult,
          cSession, cCalls, pBoot, pCalls, pUuid, pPeer, pHandlers, pRegistered,
          pChannelName, pRemotePeerId, pSends, pThrew, pRoster,
          ngWire, ngHeard, ngFed, ngRemotePeerId, ngErrors, ngPeer,
          stPeer, stMonitor, stOccurred, stSent, mGlobal, prRuns>>

\* What the handlers of one part leave alone: the variables of the others.
notInputVars == <<signInVars, consumerVars, providerVars, negotiationVars, streamingVars, preloadVars>>
notSignInVars == <<inputVars, consumerVars, providerVars, negotiationVars, streamingVars, preloadVars>>
notConsumerVars == <<inputVars, signInVars, providerVars, negotiationVars, streamingVars, preloadVars>>
notProviderVars == <<inputVars, signInVars, consumerVars, negotiationVars, streamingVars, preloadVars>>
notNegotiationVars == <<inputVars, signInVars, consumerVars, providerVars, streamingVars, preloadVars>>
notStreamingVars == <<inputVars, signInVars, consumerVars, providerVars, negotiationVars, preloadVars>>
notPreloadVars == <<inputVars, signInVars, consumerVars, providerVars, negotiationVars, streamingVars>>

(***************************************************************************)
(* Bounds of the model.                                                    *)
(***************************************************************************)
MaxPointers == 2      \* longest pointer sequence of a touch or wheel message
MaxRoster == 3        \* longest roster a sign-in returns
MaxConnects == 2      \* connect() invocations (clicks on #connect)
MaxSignals == 1       \* 'signal' events of a peer connection
MaxInbound == 2       \* Negotiation Messages fed to one peer connection of the provider
MaxDisconnects == 2   \* 'disconnect' events of the provider's peer connections
MaxMessages == 3      \* Negotiation Messages the two peer connections emit
MaxErrors == 1        \* 'error' events of a signaling channel
MaxPreloads == 3      \* runs of the streamer preload script (loads of the streamer window)

RECURSIVE SeqsUpTo(_, _)
SeqsUpTo(S, n) ==
  IF n = 0 THEN { <<>> }
  ELSE LET shorter == SeqsUpTo(S, n - 1)
       IN  shorter \cup { Append(s, x) : s \in { t \in shorter : Len(t) = n - 1 }, x \in S }

Range(s) == { s[i] : i \in DOMAIN s }

(***************************************************************************)
(* Characters and the String methods convertSingleKey uses.                *)
(***************************************************************************)
LowerLetters ==
  <<"a", "b", "c", "d", "e", "f", "g", "h", "i", "j", "k", "l", "m",
    "n", "o", "p", "q", "r", "s", "t", "u", "v", "w", "x", "y", "z">>

UpperLetters ==
  <<"A", "B", "C", "D", "E", "F", "G", "H", "I", "J", "K", "L", "M",
    "N", "O", "P", "Q", "R", "S", "T", "U", "V", "W", "X", "Y", "Z">>

DigitChars == { "0", "1", "2", "3", "4", "5", "6", "7", "8", "9" }

NonZeroDigitChars == DigitChars \ { "0" }

\* The grave accent.  A string literal cannot hold it alone (a grave accent
\* inside a literal opens a span that runs to the next apostrophe), so it is
\* taken out of the two-character string of a grave accent and an apostrophe.
Backtick == SubSeq("`'", 1, 1)

\* The punctuation of the keyCodes character class.
PunctuationChars ==
  { ")", "!", "@", "#", "$", "%", "^", "&", "*", "(", ":", "+", "<", "_", ">",
    "?", "~", "{", "|", "}", "\"", ";", "=", ",", "-", ".", "/", Backtick, "[",
    "\\", "]", "'" }

\* String.prototype.toUpperCase on one character.
toUpperCase(c) ==
  IF \E i \in DOMAIN LowerLetters : LowerLetters[i] = c
  THEN UpperLetters[CHOOSE i \in DOMAIN LowerLetters : LowerLetters[i] = c]
  ELSE c

\* String.prototype.toLowerCase on one character.
toLowerCase(c) ==
  IF \E i \in DOMAIN UpperLetters : UpperLetters[i] = c
  THEN LowerLetters[CHOOSE i \in DOMAIN UpperLetters : UpperLetters[i] = c]
  ELSE c

\* keyboard.key[0].toUpperCase() + keyboard.key.substr(1).toLowerCase(),
\* for a non-empty key.
casedKeyCodeOf(key) ==
  [i \in DOMAIN key |-> IF i = 1 THEN toUpperCase(key[i]) ELSE toLowerCase(key[i])]

EndsWith(key, name) ==
  /\ Len(key) >= Len(name)
  /\ \A i \in DOMAIN name : key[Len(key) - Len(name) + i] = name[i]

(***************************************************************************)
(* The four regular expressions of convertSingleKey.                       *)
(***************************************************************************)
ModifierNames ==
  { <<"C", "o", "m", "m", "a", "n", "d">>, <<"C", "m", "d">>,
    <<"C", "o", "n", "t", "r", "o", "l">>, <<"C", "t", "r", "l">>,
    <<"C", "o", "m", "m", "a", "n", "d", "O", "r", "C", "o", "n", "t", "r", "o", "l">>,
    <<"C", "m", "d", "O", "r", "C", "t", "r", "l">>,
    <<"A", "l", "t">>, <<"O", "p", "t", "i", "o", "n">>,
    <<"A", "l", "t", "G", "r">>, <<"S", "h", "i", "f", "t">>,
    <<"S", "u", "p", "e", "r">> }

\* The literal alternatives of specialKeyCodes (the F-key alternatives are
\* in FKeySuffix).
SpecialNames ==
  { <<"P", "l", "u", "s">>, <<"S", "p", "a", "c", "e">>,
    <<"T", "a", "b">>, <<"B", "a", "c", "k", "s", "p", "a", "c", "e">>,
    <<"D", "e", "l", "e", "t", "e">>, <<"I", "n", "s", "e", "r", "t">>,
    <<"R", "e", "t", "u", "r", "n">>, <<"E", "n", "t", "e", "r">>,
    <<"U", "p">>, <<"D", "o", "w", "n">>,
    <<"L", "e", "f", "t">>, <<"R", "i", "g", "h", "t">>,
    <<"H", "o", "m", "e">>, <<"E", "n", "d">>,
    <<"P", "a", "g", "e", "U", "p">>, <<"P", "a", "g", "e", "D", "o", "w", "n">>,
    <<"E", "s", "c", "a", "p", "e">>, <<"E", "s", "c">>,
    <<"V", "o", "l", "u", "m", "e", "U", "p">>,
    <<"V", "o", "l", "u", "m", "e", "D", "o", "w", "n">>,
    <<"V", "o", "l", "u", "m", "e", "M", "u", "t", "e">>,
    <<"M", "e", "d", "i", "a", "N", "e", "x", "t", "T", "r", "a", "c", "k">>,
    <<"M", "e", "d", "i", "a", "P", "r", "e", "v", "i", "o", "u", "s", "T", "r", "a", "c", "k">>,
    <<"M", "e", "d", "i", "a", "S", "t", "o", "p">>,
    <<"M", "e", "d", "i", "a", "P", "l", "a", "y", "P", "a", "u", "s", "e">>,
    <<"P", "r", "i", "n", "t", "S", "c", "r", "e", "e", "n">> }

\* /^(Command|Cmd|...|Super)$/.test(key): the whole key is a modifier name.
modifiers(key) == key \in ModifierNames

\* /^([0-9A-Za-z)!@#...])$/.test(key): exactly one character of the class.
keyCodes(key) ==
  /\ Len(key) = 1
  /\ key[1] \in DigitChars \cup Range(UpperLetters) \cup Range(LowerLetters)
                  \cup PunctuationChars

\* /^[a-z]$/.test(key)
lowerKeyCodes(key) == Len(key) = 1 /\ key[1] \in Range(LowerLetters)

\* F1*[1-9]$ | F10$ | F2[0-4]$ : the key ends with one of these.
FKeySuffix(key) ==
  \/ \E i \in DOMAIN key :
       /\ key[i] = "F"
       /\ i < Len(key)
       /\ \A j \in (i + 1)..(Len(key) - 1) : key[j] = "1"
       /\ key[Len(key)] \in NonZeroDigitChars
  \/ EndsWith(key, <<"F", "1", "0">>)
  \/ \E d \in { "0", "1", "2", "3", "4" } : EndsWith(key, <<"F", "2", d>>)

\* /(F1*[1-9]|F10|F2[0-4]|Plus|...|PrintScreen)$/.test(key): the pattern has
\* no ^, so it matches when the key ENDS with an alternative.
specialKeyCodes(key) ==
  \/ FKeySuffix(key)
  \/ \E name \in SpecialNames : EndsWith(key, name)

(***************************************************************************)
(* Electron events and the values convertSingleKey / convertSingleTouch    *)
(* hand back.                                                              *)
(***************************************************************************)
\* JavaScript's undefined in a keyCode: a value no key equals (a key holds
\* one-character strings only).
Undefined == <<"undefined">>

\* The null convertSingleTouch and convertSingleKey return for "no event".
Null == [type |-> "null"]

Returned(value) == [threw |-> "none", value |-> value]

Thrown(error) == [threw |-> error, value |-> <<>>]

\* Mutants of convertSingleTouch: 'move' is dropped like 'none'.
convertSingleTouch_dropsMove(pointer) ==
  CASE pointer.state = "start" ->
         [button |-> "left", clickCount |-> 1, type |-> "mouseDown",
          x |-> pointer.x, y |-> pointer.y]
    [] pointer.state = "end" ->
         [button |-> "left", clickCount |-> 1, type |-> "mouseUp",
          x |-> pointer.x, y |-> pointer.y]
    [] OTHER -> Null

convertSingleTouch(pointer) ==
  CASE pointer.state = "start" ->
         [button |-> "left", clickCount |-> 1, type |-> "mouseDown",
          x |-> pointer.x, y |-> pointer.y]
    [] pointer.state = "end" ->
         [button |-> "left", clickCount |-> 1, type |-> "mouseUp",
          x |-> pointer.x, y |-> pointer.y]
    [] pointer.state = "move" ->
         [button |-> "left", clickCount |-> 1, type |-> "mouseMove",
          x |-> pointer.x, y |-> pointer.y]
    [] OTHER -> Null

KeyEvent(keyCode, mods, type) ==
  [keyCode |-> keyCode, modifiers |-> mods, type |-> type]

\* The else branch of convertSingleKey (special keys and modifiers).  The key
\* is cased first; keyboard.key[0] of an empty key is undefined, and calling
\* toUpperCase on it throws a TypeError.  Both patterns are tested against
\* keyboard.key, the key as received.
convertKeyEvent(keyboard) ==
  IF keyboard.key = <<>> THEN Thrown("TypeError")
  ELSE LET casedKeyCode == casedKeyCodeOf(keyboard.key)
           type == IF keyboard.state = "pressed" THEN "keyDown" ELSE "keyUp"
       IN  IF specialKeyCodes(keyboard.key)
           THEN Returned(KeyEvent(casedKeyCode, <<>>, type))
           ELSE IF modifiers(keyboard.key)
           THEN Returned(KeyEvent(Undefined, <<casedKeyCode>>, type))
           ELSE Returned(KeyEvent(Undefined, <<>>, type))

\* Mutant of convertSingleKey: a printable key fires a char in every state.
convertSingleKey_charOnRelease(keyboard) ==
  IF keyCodes(keyboard.key)
  THEN Returned(KeyEvent(keyboard.key,
                         IF lowerKeyCodes(keyboard.key) THEN <<>> ELSE <<"Shift">>,
                         "char"))
  ELSE convertKeyEvent(keyboard)

\* Mutant of convertSingleKey: the modifiers list carries the key as
\* received instead of the cased key.
convertSingleKey_rawModifier(keyboard) ==
  IF keyCodes(keyboard.key)
  THEN IF keyboard.state # "pressed"
       THEN Returned(Null)
       ELSE Returned(KeyEvent(keyboard.key,
                              IF lowerKeyCodes(keyboard.key) THEN <<>> ELSE <<"Shift">>,
                              "char"))
  ELSE IF keyboard.key # <<>> /\ ~specialKeyCodes(keyboard.key) /\ modifiers(keyboard.key)
  THEN Returned(KeyEvent(Undefined, <<keyboard.key>>,
                         IF keyboard.state = "pressed" THEN "keyDown" ELSE "keyUp"))
  ELSE convertKeyEvent(keyboard)

\* Mutant of convertSingleKey: a char never carries the Shift modifier.
convertSingleKey_neverShift(keyboard) ==
  IF keyCodes(keyboard.key)
  THEN IF keyboard.state # "pressed"
       THEN Returned(Null)
       ELSE Returned(KeyEvent(keyboard.key, <<>>, "char"))
  ELSE convertKeyEvent(keyboard)

convertSingleKey(keyboard) ==
  IF keyCodes(keyboard.key)
  THEN IF keyboard.state # "pressed"
       THEN Returned(Null)
       ELSE Returned(KeyEvent(keyboard.key,
                              IF lowerKeyCodes(keyboard.key) THEN <<>> ELSE <<"Shift">>,
                              "char"))
  ELSE convertKeyEvent(keyboard)

SupportedVersion == 1

\* Mutant of convertToElectronMessages: an unknown type throws (the throw the
\* source has commented out).
convertToElectronMessages_throwsOnUnknown(msg) ==
  IF msg.version # SupportedVersion THEN Thrown("UnsupportedVersion")
  ELSE CASE msg.type = "touch" ->
              Returned([i \in DOMAIN msg.data.pointers |->
                          convertSingleTouch(msg.data.pointers[i])])
         [] msg.type = "keyboard" ->
              LET k == convertSingleKey(msg.data)
              IN  IF k.threw # "none" THEN k ELSE Returned(<<k.value>>)
         [] msg.type = "wheel" ->
              IF msg.data.pointers = <<>> THEN Thrown("TypeError")
              ELSE Returned(<<[x |-> 0, y |-> 0, type |-> "mouseWheel",
                               deltaX |-> msg.data.pointers[1].dx,
                               deltaY |-> msg.data.pointers[1].dy]>>)
         [] OTHER -> Thrown("UnsupportedMessageType")

\* Mutant of convertToElectronMessages: the wheel action takes its deltas
\* from the last pointer entry.
convertToElectronMessages_wheelLastPointer(msg) ==
  IF msg.version # SupportedVersion THEN Thrown("UnsupportedVersion")
  ELSE CASE msg.type = "touch" ->
              Returned([i \in DOMAIN msg.data.pointers |->
                          convertSingleTouch(msg.data.pointers[i])])
         [] msg.type = "keyboard" ->
              LET k == convertSingleKey(msg.data)
              IN  IF k.threw # "none" THEN k ELSE Returned(<<k.value>>)
         [] msg.type = "wheel" ->
              IF msg.data.pointers = <<>> THEN Thrown("TypeError")
              ELSE Returned(<<[x |-> 0, y |-> 0, type |-> "mouseWheel",
                               deltaX |-> msg.data.pointers[Len(msg.data.pointers)].dx,
                               deltaY |-> msg.data.pointers[Len(msg.data.pointers)].dy]>>)
         [] OTHER -> Returned(<<>>)

\* The result of convertToElectronMessages: the events (null included) or
\* the error thrown.  wheelData.pointers[0].dx of an empty pointer list reads
\* a property of undefined and throws a TypeError.
convertToElectronMessages(msg) ==
  IF msg.version # SupportedVersion THEN Thrown("UnsupportedVersion")
  ELSE CASE msg.type = "touch" ->
              Returned([i \in DOMAIN msg.data.pointers |->
                          convertSingleTouch(msg.data.pointers[i])])
         [] msg.type = "keyboard" ->
              LET k == convertSingleKey(msg.data)
              IN  IF k.threw # "none" THEN k ELSE Returned(<<k.value>>)
         [] msg.type = "wheel" ->
              IF msg.data.pointers = <<>> THEN Thrown("TypeError")
              ELSE Returned(<<[x |-> 0, y |-> 0, type |-> "mouseWheel",
                               deltaX |-> msg.data.pointers[1].dx,
                               deltaY |-> msg.data.pointers[1].dy]>>)
         [] OTHER -> Returned(<<>>)

IpcSend(channel, payload) == [channel |-> channel, payload |-> payload]

\* events.filter((evt) => evt != null)
RECURSIVE FilterNotNull(_)
FilterNotNull(events) ==
  IF events = <<>> THEN <<>>
  ELSE IF Head(events) = Null THEN FilterNotNull(Tail(events))
  ELSE <<Head(events)>> \o FilterNotNull(Tail(events))

\* Input.processAndRaiseMessage: the ipcRenderer.send calls it makes, or the
\* error it throws.  (Every send also carries this.windowid, which is fixed at
\* construction and left out here.)
processAndRaiseMessage(msg) ==
  IF msg.type = "resize"
  THEN Returned(<<IpcSend("sendWindowEvent", msg)>>)
  ELSE LET events == convertToElectronMessages(msg)
       IN  IF events.threw # "none" THEN events
           ELSE LET kept == FilterNotNull(events.value)
                IN  Returned([i \in DOMAIN kept |-> IpcSend("sendInputEvent", kept[i])])

(***************************************************************************)
(* The Input Messages the data channel delivers.                           *)
(***************************************************************************)
Versions == { 0, 1, 2 }

TouchStates == { "start", "end", "move", "none", "hover" }

\* The pointers of a touch message: the fields convertSingleTouch reads.
Pointers == [state : TouchStates, x : { 10 }, y : { 20 }]
              \cup [state : TouchStates, x : { 35 }, y : { 5 }]

\* The pointers of a wheel message: the fields the wheel case reads.
WheelPointers == { [dx |-> -3, dy |-> 5], [dx |-> 0, dy |-> 0], [dx |-> 4, dy |-> -2] }

PrintableChars ==
  DigitChars \cup Range(UpperLetters) \cup Range(LowerLetters) \cup PunctuationChars

\* Keys of more than one character: names that differ from a modifier or
\* special key name in case, by a prefix or by a suffix, and the F keys.
OtherKeys ==
  { <<"s", "h", "i", "f", "t">>, <<"S", "H", "I", "F", "T">>, <<"c", "t", "r", "l">>, <<"a", "l", "t", "g", "r">>,
    <<"A", "L", "T">>, <<"a", "l", "t">>, <<"A", "l", "t", "g", "r">>, <<"e", "n", "t", "e", "r">>,
    <<"E", "N", "T", "E", "R">>, <<"p", "a", "g", "e", "u", "p">>, <<"P", "A", "G", "E", "U", "P">>, <<"P", "a", "g", "e", "u", "p">>,
    <<"e", "s", "c", "a", "p", "e">>, <<"u", "p">>, <<"U", "P">>, <<"u", "P">>,
    <<"U", "p">>, <<"a", "U", "p">>, <<"1", "U", "p">>, <<"x", "E", "n", "t", "e", "r">>,
    <<"U", "p", "x">>, <<"E", "n", "t", "e", "r", "p", "r", "i", "s", "e">>, <<"f", "1">>, <<"f", "5">>,
    <<"F", "1">>, <<"F", "2">>, <<"F", "9">>, <<"F", "0">>,
    <<"F", "1", "0">>, <<"F", "1", "1">>, <<"F", "1", "2">>, <<"F", "1", "9">>,
    <<"F", "2", "0">>, <<"F", "2", "4">>, <<"F", "2", "5">>, <<"F", "3", "0">>,
    <<"F", "1", "1", "1">>, <<"F", "2", "1", "1">>, <<"F", "F", "1">>, <<"F", "1", "F">>,
    <<"F">>, <<"M", "e", "t", "a">>, <<"F", "n">>, <<"H", "y", "p", "e", "r">>,
    <<"a", "b">>, <<"A", "1">>, <<" ", " ">> }

\* Every one-character key of the printable class, the space, the empty
\* key, every modifier and special key name, and OtherKeys.
Keys ==
  { <<c>> : c \in PrintableChars \cup { " " } } \cup { <<>> }
    \cup ModifierNames \cup SpecialNames \cup OtherKeys

KeyStates == { "pressed", "released", "repeat" }

Sizes == { 600, 800 }

TouchMsgs ==
  [type : { "touch" }, version : Versions,
   data : [pointers : SeqsUpTo(Pointers, MaxPointers)]]

WheelMsgs ==
  [type : { "wheel" }, version : Versions,
   data : [pointers : SeqsUpTo(WheelPointers, MaxPointers)]]

KeyboardMsgs ==
  [type : { "keyboard" }, version : Versions, data : [key : Keys, state : KeyStates]]

ResizeMsgs ==
  [type : { "resize" }, version : Versions, data : [width : Sizes, height : Sizes]]

\* Message types this receiver does not know.
UnknownTypes == { "gesture", "pen" }

UnknownMsgs ==
  [type : UnknownTypes, version : Versions, data : [pointers : { <<>> }]]

KnownTypes == { "touch", "wheel", "keyboard", "resize" }

\* No message is being handled.
NoMsg == [type |-> "nothing", version |-> SupportedVersion, data |-> [pointers |-> <<>>]]

InitInput ==
  /\ inMsg = NoMsg
  /\ ipcSent = <<>>
  /\ inRaised = "none"
  /\ inPrev = [type |-> "nothing", version |-> SupportedVersion, threw |-> "none"]

\* The Application's webrtcProvider.on("data") handler with its inputHandler:
\* the message is parsed and handed to processAndRaiseMessage.
OnData(msg) ==
  LET r == processAndRaiseMessage(msg)
  IN  /\ inMsg = NoMsg
      /\ inMsg' = msg
      /\ ipcSent' = r.value
      /\ inRaised' = r.threw
      /\ UNCHANGED <<inPrev, notInputVars>>

OnTouch == \E msg \in TouchMsgs : OnData(msg)

OnWheel == \E msg \in WheelMsgs : OnData(msg)

OnKeyboard == \E msg \in KeyboardMsgs : OnData(msg)

OnResize == \E msg \in ResizeMsgs : OnData(msg)

OnUnknown == \E msg \in UnknownMsgs : OnData(msg)

\* The handler is done (it returned or threw into the emitter); it stays
\* registered, and the next 'data' event runs it again.
DataHandled ==
  /\ inMsg # NoMsg
  /\ inPrev' = [type |-> inMsg.type, version |-> inMsg.version, threw |-> inRaised]
  /\ inMsg' = NoMsg
  /\ ipcSent' = <<>>
  /\ inRaised' = "none"
  /\ UNCHANGED notInputVars

NextInput == OnTouch \/ OnWheel \/ OnKeyboard \/ OnResize \/ OnUnknown \/ DataHandled

(***************************************************************************)
(* uuid() and the calls both roles make to their signaling channel.        *)
(***************************************************************************)
\* Mutant of uuid: the same value on every call.
uuid_repeats(drawn) == 1

\* uuid(): a value no earlier call returned; `drawn` counts the earlier calls.
uuid(drawn) == drawn + 1

SignInCall(name) == [op |-> "signIn", name |-> name]

SignOutCall == [op |-> "signOut", name |-> 0]

(***************************************************************************)
(* Consumer: signIn(signalProvider), stream-consumer main.ts.               *)
(***************************************************************************)
PeerIds == { "A", "B", "C" }

\* JavaScript's undefined where an id is expected.
NoId == "undefined"

\* !streamProviderId
Falsy(id) == id \in { NoId, "" }

\* ISignalPeer, as far as signIn reads it.
SignalPeers == [id : PeerIds, connected : BOOLEAN]

Rosters == SeqsUpTo(SignalPeers, MaxRoster)

\* Mutant of ScanPeers: the first match is kept.
RECURSIVE ScanPeers_firstWins(_, _, _)
ScanPeers_firstWins(peers, streamConsumerId, streamProviderId) ==
  IF peers = <<>> THEN streamProviderId
  ELSE LET peer == Head(peers)
       IN  ScanPeers_firstWins(Tail(peers), streamConsumerId,
             IF peer.connected /\ peer.id # streamConsumerId /\ streamProviderId = NoId
             THEN peer.id ELSE streamProviderId)

\* peers.forEach(...): every connected peer that is not the consumer itself
\* is assigned to streamProviderId, one after the other.
RECURSIVE ScanPeers(_, _, _)
ScanPeers(peers, streamConsumerId, streamProviderId) ==
  IF peers = <<>> THEN streamProviderId
  ELSE LET peer == Head(peers)
       IN  ScanPeers(Tail(peers), streamConsumerId,
             IF peer.connected /\ peer.id # streamConsumerId
             THEN peer.id ELSE streamProviderId)

\* Mutant of signIn: the missing provider is returned, not thrown.
signIn_noThrow(peers, streamConsumerId) ==
  Returned(ScanPeers(peers, streamConsumerId, NoId))

\* signIn, from the roster and the id signalProvider.signIn resolved with.
signIn(peers, streamConsumerId) ==
  LET streamProviderId == ScanPeers(peers, streamConsumerId, NoId)
  IN  IF Falsy(streamProviderId)
      THEN Thrown("Couldn't find any stream provider")
      ELSE Returned(streamProviderId)

InitSignIn ==
  /\ siCall = "idle"
  /\ siPeers = <<>>
  /\ siId = NoId
  /\ siResult = NoId

\* signIn is called: a peer name is generated and signalProvider.signIn awaited.
SignInCalled ==
  /\ siCall = "idle"
  /\ siCall' = "awaiting"
  /\ UNCHANGED <<siPeers, siId, siResult, notSignInVars>>

\* The signaling channel answers with the roster and the consumer's id.
SignInAnswered ==
  \E peers \in Rosters, id \in PeerIds :
    LET r == signIn(peers, id)
    IN  /\ siCall = "awaiting"
        /\ siPeers' = peers
        /\ siId' = id
        /\ siCall' = (IF r.threw = "none" THEN "returned" ELSE "threw")
        /\ siResult' = (IF r.threw = "none" THEN r.value ELSE r.threw)
        /\ UNCHANGED notSignInVars

\* The signaling channel cannot be reached: signalProvider.signIn rejects,
\* and so does signIn.
SignInUnavailable ==
  /\ siCall = "awaiting"
  /\ siCall' = "threw"
  /\ siResult' = "SignalingUnavailable"
  /\ UNCHANGED <<siPeers, siId, notSignInVars>>

NextSignIn == SignInCalled \/ SignInAnswered \/ SignInUnavailable

(***************************************************************************)
(* Consumer: connect(), stream-consumer main.ts.  Every click on #connect   *)
(* runs connect(), which builds its own Signal and its own SimplePeer.      *)
(***************************************************************************)
\* Whether a roster holds a connected participant other than the consumer.
HasRemote(peers, id) ==
  \E k \in DOMAIN peers : peers[k].connected /\ peers[k].id # id

\* signIn has not returned or thrown yet.
NoResult == [threw |-> "none", value |-> NoId]

InitConsumer == cSession = <<>> /\ cCalls = <<>>

Sessions == DOMAIN cSession

\* $("#connect").click(() => connect()): a Signal is built, its 'error' and
\* 'peer-message' handlers are registered, and signIn calls
\* signalProvider.signIn with a new uuid() as the name and awaits it.
Connect ==
  /\ Len(cSession) < MaxConnects
  /\ cSession' = Append(cSession,
       [pc |-> "awaitSignIn", signedIn |-> FALSE, providerId |-> NoId,
        hadRemote |-> FALSE, result |-> NoResult, error |-> "none",
        peer |-> "none", sent |-> 0,
        signalled |-> FALSE, handlerThrew |-> FALSE])
  /\ cCalls' = Append(cCalls, SignInCall(uuid(Len(cCalls))))
  /\ UNCHANGED notConsumerVars

\* What a sign-in can be answered with, as far as connect() goes: what
\* signIn makes of the roster and of the consumer's id, and whether the
\* roster held a connected participant other than the consumer.
SignInAnswers ==
  { [result |-> signIn(peers, id), hadRemote |-> HasRemote(peers, id)] :
      peers \in Rosters, id \in PeerIds }

\* The signaling channel answers the sign-in: the consumer is now a
\* participant, its 'peer-message' handler can be called, and signIn makes its
\* result of the roster.  connect() is still suspended at its await.
ConnectAnswered(i) ==
  \E answer \in SignInAnswers :
    /\ i \in Sessions
    /\ cSession[i].pc = "awaitSignIn"
    /\ ~cSession[i].signedIn
    /\ cSession' = [cSession EXCEPT ![i] =
         [@ EXCEPT !.signedIn = TRUE, !.hadRemote = answer.hadRemote,
                   !.result = answer.result]]
    /\ UNCHANGED <<cCalls, notConsumerVars>>

\* connect() resumes after `await signIn(signalProvider)`.  When signIn threw,
\* connect() rejects and nothing after the await runs; else the SimplePeer is
\* built (initiator) and its handlers are registered.
ConnectSignedIn(i) ==
  /\ i \in Sessions
  /\ cSession[i].pc = "awaitSignIn"
  /\ cSession[i].signedIn
  /\ LET result == cSession[i].result
     IN  cSession' = [cSession EXCEPT ![i] =
           IF result.threw # "none"
           THEN [@ EXCEPT !.pc = "failed", !.error = result.threw]
           ELSE [@ EXCEPT !.pc = "running", !.providerId = result.value,
                          !.peer = "live"]]
  /\ UNCHANGED <<cCalls, notConsumerVars>>

\* The signaling channel cannot be reached: connect() rejects.
ConnectUnavailable(i) ==
  /\ i \in Sessions
  /\ cSession[i].pc = "awaitSignIn"
  /\ ~cSession[i].signedIn
  /\ cSession' = [cSession EXCEPT ![i] =
       [@ EXCEPT !.pc = "failed", !.error = "SignalingUnavailable"]]
  /\ UNCHANGED <<cCalls, notConsumerVars>>

\* peer.on("signal"): the peer's offer is unwrapped and sent to providerId.
PeerSignal(i) ==
  /\ cSession[i].peer = "live"
  /\ cSession[i].sent < MaxSignals
  /\ cSession' = [cSession EXCEPT ![i].sent = @ + 1]
  /\ UNCHANGED <<cCalls, notConsumerVars>>

\* signalProvider.on("peer-message"): the message is rewrapped and handed to
\* peer.signal.  `peer` is a const declared after the await, so the handler
\* throws a ReferenceError while no peer has been built; a destroyed peer
\* refuses the signal.
PeerMessage(i) ==
  /\ cSession[i].signedIn
  /\ cSession' = [cSession EXCEPT ![i] =
       IF @.peer \in { "live", "connected" }
       THEN [@ EXCEPT !.signalled = TRUE]
       ELSE [@ EXCEPT !.handlerThrew = TRUE]]
  /\ UNCHANGED <<cCalls, notConsumerVars>>

\* peer.on("connect"): logged.
PeerConnect(i) ==
  /\ cSession[i].peer = "live"
  /\ cSession[i].signalled
  /\ cSession' = [cSession EXCEPT ![i].peer = "connected"]
  /\ UNCHANGED <<cCalls, notConsumerVars>>

\* peer.on("close"): logged; nothing else is done.
PeerClose(i) ==
  /\ cSession[i].peer \in { "live", "connected" }
  /\ cSession' = [cSession EXCEPT ![i].peer = "closed"]
  /\ UNCHANGED <<cCalls, notConsumerVars>>

NextConsumer ==
  \/ Connect
  \/ \E i \in Sessions : ConnectAnswered(i)
  \/ \E i \in Sessions : ConnectSignedIn(i)
  \/ \E i \in Sessions : ConnectUnavailable(i)
  \/ \E i \in Sessions : PeerSignal(i)
  \/ \E i \in Sessions : PeerMessage(i)
  \/ \E i \in Sessions : PeerConnect(i)
  \/ \E i \in Sessions : PeerClose(i)

(***************************************************************************)
(* Provider: Application.boot(), stream-provider application.ts.  The       *)
(* signaling channel (Signal) and the peer connection (Peer) are not part  *)
(* of the sources at hand; what they do is taken from the specification:   *)
(* signIn registers or fails with SignalingUnavailable, and signOut always *)
(* deregisters.                                                            *)
(***************************************************************************)
\* How the promise of signalProvider.signIn settles.
SignInOutcomes == { "resolved", "rejected" }

\* How the promise of signalProvider.signOut settles.
SignOutOutcomes == { "resolved" }

\* The rosters the boot sign-in resolves with: the provider alone, and the
\* provider with a connected consumer.
ProviderRosters ==
  { << [id |-> "A", connected |-> TRUE] >>,
    << [id |-> "A", connected |-> TRUE], [id |-> "B", connected |-> TRUE] >> }

\* No sign-in has resolved yet.
NoRoster == <<>>

\* The participants that send the provider Negotiation Messages.
Senders == { "B", "C" }

InitProvider ==
  /\ pBoot = "start"
  /\ pCalls = <<>>
  /\ pUuid = 0
  /\ pPeer = [gen |-> 0, state |-> "none", signalled |-> 0, first |-> NoId]
  /\ pHandlers = <<>>
  /\ pRegistered = {}
  /\ pChannelName = 0
  /\ pRemotePeerId = NoId
  /\ pSends = <<>>
  /\ pThrew = FALSE
  /\ pRoster = NoRoster

\* The signaling channel registers `name`: the sign-in resolves.
Registered(name) ==
  /\ pRegistered' = pRegistered \cup { name }
  /\ pChannelName' = name

\* The signaling channel deregisters the participant it is signed in as;
\* signed out already, signOut does nothing.
Deregistered ==
  /\ pRegistered' = pRegistered \ { pChannelName }
  /\ pChannelName' = 0

\* boot() finds no capture device and throws.
BootNoDevices ==
  /\ pBoot = "start"
  /\ pBoot' = "failed"
  /\ UNCHANGED <<pCalls, pUuid, pPeer, pHandlers, pRegistered, pChannelName,
                 pRemotePeerId, pSends, pThrew, pRoster, notProviderVars>>

\* boot() up to its await of signIn: the stream is created, the peer
\* connection initialized and signIn called with a new name.
Boot ==
  /\ pBoot = "start"
  /\ pPeer' = [gen |-> 1, state |-> "live", signalled |-> 0, first |-> NoId]
  /\ pUuid' = pUuid + 1
  /\ pCalls' = Append(pCalls, SignInCall(uuid(pUuid)))
  /\ pBoot' = "awaitSignIn"
  /\ UNCHANGED <<pHandlers, pRegistered, pChannelName, pRemotePeerId, pSends, pThrew,
                 pRoster, notProviderVars>>

\* Where boot() stands once `await signalProvider.signIn(...)` has settled:
\* the value the promise resolves with is not read.
AfterSignIn(outcome, roster) ==
  IF outcome = "resolved" THEN "running" ELSE "failed"

\* The boot sign-in settles: resolved, the handlers are registered; rejected,
\* boot() rejects and the failure is logged.
BootSignedIn(outcome, roster) ==
  /\ pBoot = "awaitSignIn"
  /\ pBoot' = AfterSignIn(outcome, roster)
  /\ IF outcome = "resolved"
     THEN Registered(pCalls[Len(pCalls)].name) /\ pRoster' = roster
     ELSE UNCHANGED <<pRegistered, pChannelName, pRoster>>
  /\ UNCHANGED <<pCalls, pUuid, pPeer, pHandlers, pRemotePeerId, pSends, pThrew,
                 notProviderVars>>

\* signalProvider.on("peer-message"): the sender becomes remotePeerId and the
\* rewrapped message is handed to webrtcProvider.signal, which throws once
\* the peer connection is destroyed.
ProviderPeerMessage(id) ==
  /\ pBoot = "running"
  /\ pChannelName # 0
  /\ pPeer.signalled < MaxInbound
  /\ pRemotePeerId' = id
  /\ IF pPeer.state = "closed"
     THEN pThrew' = TRUE /\ UNCHANGED pPeer
     ELSE /\ pPeer' = [pPeer EXCEPT !.signalled = @ + 1,
                                   !.first = IF @ = NoId THEN id ELSE @]
          /\ UNCHANGED pThrew
  /\ UNCHANGED <<pBoot, pCalls, pUuid, pHandlers, pRegistered, pChannelName, pSends,
                 pRoster, notProviderVars>>

\* webrtcProvider.on("signal"): the peer connection's signal is unwrapped and
\* sent to remotePeerId, whatever remotePeerId holds: undefined as long as no
\* 'peer-message' handler has run.
ProviderSignal ==
  /\ pBoot = "running"
  /\ pPeer.state \in { "live", "connected" }
  /\ Len(pSends) < MaxSignals
  /\ pSends' = Append(pSends, pRemotePeerId)
  /\ UNCHANGED <<pBoot, pCalls, pUuid, pPeer, pHandlers, pRegistered, pChannelName,
                 pRemotePeerId, pThrew, pRoster, notProviderVars>>

\* webrtcProvider.on("connect"): logged.
ProviderConnect ==
  /\ pBoot = "running"
  /\ pPeer.state = "live"
  /\ pPeer.signalled > 0
  /\ pPeer' = [pPeer EXCEPT !.state = "connected"]
  /\ UNCHANGED <<pBoot, pCalls, pUuid, pHandlers, pRegistered, pChannelName,
                 pRemotePeerId, pSends, pThrew, pRoster, notProviderVars>>

\* webrtcProvider emits 'disconnect' for its peer connection, a closed one
\* included (close, error and the loss of the data channel each end a
\* session); the handler logs, calls signOut and is suspended at the await.
Disconnect ==
  /\ pBoot = "running"
  /\ pPeer.state \in { "live", "connected", "closed" }
  /\ Len(pHandlers) < MaxDisconnects
  /\ pPeer' = [pPeer EXCEPT !.state = "closed"]
  /\ pCalls' = Append(pCalls, SignOutCall)
  /\ pHandlers' = Append(pHandlers, [at |-> "awaitSignOut", call |-> 0])
  /\ UNCHANGED <<pBoot, pUuid, pRegistered, pChannelName, pRemotePeerId, pSends, pThrew,
                 pRoster, notProviderVars>>

\* signOut settles.  Resolved, the handler re-initializes the peer connection
\* and calls signIn with a new name; rejected, the async handler ends there.
SignedOut(h, outcome) ==
  /\ h \in DOMAIN pHandlers
  /\ pHandlers[h].at = "awaitSignOut"
  /\ IF outcome = "resolved"
     THEN /\ Deregistered
          /\ pPeer' = [gen |-> pPeer.gen + 1, state |-> "live", signalled |-> 0,
                       first |-> NoId]
          /\ pUuid' = pUuid + 1
          /\ pCalls' = Append(pCalls, SignInCall(uuid(pUuid)))
          /\ pHandlers' = [pHandlers EXCEPT ![h] =
                             [at |-> "awaitSignIn", call |-> Len(pCalls) + 1]]
     ELSE /\ pHandlers' = [pHandlers EXCEPT ![h].at = "rejected"]
          /\ UNCHANGED <<pRegistered, pChannelName, pPeer, pUuid, pCalls>>
  /\ UNCHANGED <<pBoot, pRemotePeerId, pSends, pThrew, pRoster, notProviderVars>>

\* The handler's sign-in settles and the handler ends; a rejection is an
\* unhandled rejection of the async handler.
SignedInAgain(h, outcome) ==
  /\ h \in DOMAIN pHandlers
  /\ pHandlers[h].at = "awaitSignIn"
  /\ IF outcome = "resolved"
     THEN Registered(pCalls[pHandlers[h].call].name)
     ELSE UNCHANGED <<pRegistered, pChannelName>>
  /\ pHandlers' = [pHandlers EXCEPT ![h].at =
                     IF outcome = "resolved" THEN "done" ELSE "rejected"]
  /\ UNCHANGED <<pBoot, pCalls, pUuid, pPeer, pRemotePeerId, pSends, pThrew,
                 pRoster, notProviderVars>>

Handlers == 1..MaxDisconnects

NextProvider ==
  \/ BootNoDevices
  \/ Boot
  \/ \E outcome \in SignInOutcomes, roster \in ProviderRosters : BootSignedIn(outcome, roster)
  \/ \E id \in Senders : ProviderPeerMessage(id)
  \/ ProviderSignal
  \/ ProviderConnect
  \/ Disconnect
  \/ \E h \in Handlers, outcome \in SignOutOutcomes : SignedOut(h, outcome)
  \/ \E h \in Handlers, outcome \in SignInOutcomes : SignedInAgain(h, outcome)

(***************************************************************************)
(* Negotiation: the 'signal' and 'peer-message' handlers of both roles,    *)
(* stream-consumer main.ts 49-63 and 89-96, application.ts 107-117 and     *)
(* 134-141, between one consumer and the provider.                         *)
(*                                                                         *)
(* A JavaScript value is a function from property paths to leaves: the     *)
(* empty path holds what the value itself is, <<"candidate", "sdpMid">>    *)
(* what value.candidate.sdpMid is.  undefined is the function of no path,  *)
(* and a property holding undefined is a property the object lacks (both   *)
(* read as undefined, and JSON.stringify leaves both out).                 *)
(***************************************************************************)
JsUndefined == [p \in {} |-> <<"undefined", "">>]

JsString(str) == [p \in { <<>> } |-> <<"string", str>>]

JsNumber(n) == [p \in { <<>> } |-> <<"number", n>>]

\* {}
EmptyObject == [p \in { <<>> } |-> <<"object", "">>]

\* []; the elements of an array are its properties "0", "1", ...
EmptyArray == [p \in { <<>> } |-> <<"array", "">>]

\* value[key]
Get(value, key) ==
  LET below == { q \in DOMAIN value : Len(q) >= 1 /\ q[1] = key }
  IN  [p \in { Tail(q) : q \in below } |-> value[<<key>> \o p]]

\* object[key] = value
Set(object, key, value) ==
  LET kept == { q \in DOMAIN object : Len(q) = 0 \/ q[1] # key }
      new == { <<key>> \o p : p \in DOMAIN value }
  IN  [q \in kept \cup new |-> IF q \in new THEN value[Tail(q)] ELSE object[q]]

\* if (value): undefined, null, "" and 0 are falsy, every object is truthy.
Truthy(value) ==
  /\ DOMAIN value # {}
  /\ value[<<>>] \notin { <<"null", "">>, <<"string", "">>, <<"number", 0>> }

\* JSON.stringify(value): the text, as the set of its members (path and
\* leaf); the order of an object's keys carries no meaning.
JSON_stringify(value) == { <<p, value[p]>> : p \in DOMAIN value }

\* JSON.parse(text)
JSON_parse(text) ==
  [p \in { member[1] : member \in text } |->
     (CHOOSE member \in text : member[1] = p)[2]]

\* peer.on("signal") of the consumer, "unwrap": a truthy data.candidate
\* takes the place of data.
ConsumerUnwrap(data) ==
  IF Truthy(Get(data, "candidate")) THEN Get(data, "candidate") ELSE data

\* webrtcProvider.on("signal"), "unwrap".
ProviderUnwrap(data) ==
  IF Truthy(Get(data, "candidate")) THEN Get(data, "candidate") ELSE data

\* signalProvider.on("peer-message") of the consumer, "rewrap".
ConsumerRewrap(parsed) ==
  IF Truthy(Get(parsed, "candidate"))
  THEN Set(parsed, "candidate",
           Set(Set(Set(EmptyObject, "candidate", Get(parsed, "candidate")),
                   "sdpMLineIndex", Get(parsed, "sdpMLineIndex")),
               "sdpMid", Get(parsed, "sdpMid")))
  ELSE parsed

\* signalProvider.on("peer-message") of the provider, "rewrap".
ProviderRewrap(parsed) ==
  IF Truthy(Get(parsed, "candidate"))
  THEN Set(parsed, "candidate", Set(EmptyObject, "candidate", Get(parsed, "candidate")))
  ELSE parsed

Roles == { "consumer", "provider" }

\* The participant ids of the two roles.
IdOf(role) == IF role = "consumer" THEN "A" ELSE "B"

\* {candidate: {candidate, sdpMLineIndex, sdpMid}}
WrappedCandidate(candidate, sdpMLineIndex, sdpMid) ==
  Set(EmptyObject, "candidate",
      Set(Set(Set(EmptyObject, "candidate", JsString(candidate)),
              "sdpMLineIndex", sdpMLineIndex),
          "sdpMid", sdpMid))

\* {type, sdp}
SessionDescription(type) ==
  Set(Set(EmptyObject, "type", JsString(type)), "sdp", JsString("v=0"))

\* The signals the role's peer connection emits: wrapped ICE candidates
\* (sdpMLineIndex 0, sdpMid "0") and its session description, the offer of
\* the consumer (initiator: true) and the answer of the provider.
Signals(role) ==
  { WrappedCandidate(c, JsNumber(0), JsString("0")) :
      c \in { "", "candidate:1 1 UDP 2122 10.0.0.1 5000 typ host" } }
    \cup { SessionDescription(IF role = "consumer" THEN "offer" ELSE "answer") }

\* connect() has registered its signaling handlers and awaits signIn: its
\* peer is not built.  The provider's boot() has initialized its peer
\* connection and registered its handlers.
InitNegotiation ==
  /\ ngWire = <<>>
  /\ ngHeard = [role \in Roles |-> <<>>]
  /\ ngFed = [role \in Roles |-> <<>>]
  /\ ngRemotePeerId = NoId
  /\ ngErrors = [role \in Roles |-> 0]
  /\ ngPeer = [role \in Roles |-> IF role = "consumer" THEN "none" ELSE "live"]

\* The Negotiation Messages emitted so far.
Emitted == Len(ngWire) + Len(ngHeard["consumer"]) + Len(ngHeard["provider"])

\* signalProvider.send(payload, to); `signal` is the signal the payload was
\* made from, kept with it for reference.
Send(payload, to, from, signal) ==
  ngWire' = Append(ngWire, [data |-> payload, to |-> to, id |-> from, signal |-> signal])

\* connect() after `await signIn(...)`: new SimplePeer, and its handlers.
ConsumerNewPeer ==
  /\ ngPeer["consumer"] = "none"
  /\ ngPeer' = [ngPeer EXCEPT !["consumer"] = "live"]
  /\ UNCHANGED <<ngWire, ngHeard, ngFed, ngRemotePeerId, ngErrors, notNegotiationVars>>

\* peer.on("close") of the consumer: logged; the peer stays destroyed.
ConsumerPeerClose ==
  /\ ngPeer["consumer"] = "live"
  /\ ngPeer' = [ngPeer EXCEPT !["consumer"] = "closed"]
  /\ UNCHANGED <<ngWire, ngHeard, ngFed, ngRemotePeerId, ngErrors, notNegotiationVars>>

\* The provider's peer connection is destroyed and emits 'disconnect': the
\* handler awaits signOut.
ProviderPeerDisconnect ==
  /\ ngPeer["provider"] = "live"
  /\ ngPeer' = [ngPeer EXCEPT !["provider"] = "closed"]
  /\ UNCHANGED <<ngWire, ngHeard, ngFed, ngRemotePeerId, ngErrors, notNegotiationVars>>

\* The 'disconnect' handler after `await signalProvider.signOut()`:
\* webrtcProvider.initialize builds a new peer connection.
ProviderPeerInitialize ==
  /\ ngPeer["provider"] = "closed"
  /\ ngPeer' = [ngPeer EXCEPT !["provider"] = "live"]
  /\ UNCHANGED <<ngWire, ngHeard, ngFed, ngRemotePeerId, ngErrors, notNegotiationVars>>

\* peer.on("signal") of the consumer: the signal is unwrapped, serialized and
\* sent to providerId.
ConsumerSignal(data) ==
  /\ ngPeer["consumer"] = "live"
  /\ Emitted < MaxMessages
  /\ Send(JSON_stringify(ConsumerUnwrap(data)), IdOf("provider"), IdOf("consumer"), data)
  /\ UNCHANGED <<ngHeard, ngFed, ngRemotePeerId, ngErrors, ngPeer, notNegotiationVars>>

\* webrtcProvider.on("signal"): the signal is unwrapped, serialized and sent
\* to remotePeerId, whatever remotePeerId holds.
ProviderSignalled(data) ==
  /\ ngPeer["provider"] = "live"
  /\ Emitted < MaxMessages
  /\ Send(JSON_stringify(ProviderUnwrap(data)), ngRemotePeerId, IdOf("provider"), data)
  /\ UNCHANGED <<ngHeard, ngFed, ngRemotePeerId, ngErrors, ngPeer, notNegotiationVars>>

\* Another participant of the channel ("C"), which read the consumer's id
\* in the roster, sends it a Negotiation Message.
ForeignSend(data) ==
  /\ Emitted < MaxMessages
  /\ Send(JSON_stringify(data), IdOf("consumer"), "C", data)
  /\ UNCHANGED <<ngHeard, ngFed, ngRemotePeerId, ngErrors, ngPeer, notNegotiationVars>>

\* What is in flight once the k-th message has been delivered.
Delivered(k) == SubSeq(ngWire, 1, k - 1) \o SubSeq(ngWire, k + 1, Len(ngWire))

\* signalProvider.on("peer-message") of the consumer: the payload is parsed,
\* rewrapped and handed to peer.signal.  `peer` is the const of line 78:
\* reading it before connect() has got there throws a ReferenceError, and
\* signal() on a destroyed peer throws.
ConsumerPeerMessage(k) ==
  /\ k \in DOMAIN ngWire
  /\ ngWire[k].to = IdOf("consumer")
  /\ ngWire' = Delivered(k)
  /\ LET parsed == ConsumerRewrap(JSON_parse(ngWire[k].data))
         threw == ngPeer["consumer"] # "live"
     IN  /\ ngHeard' = [ngHeard EXCEPT !["consumer"] =
                          Append(@, ngWire[k] @@ [threw |-> threw])]
         /\ ngFed' = [ngFed EXCEPT !["consumer"] =
                        IF threw THEN @ ELSE Append(@, parsed)]
  /\ UNCHANGED <<ngRemotePeerId, ngErrors, ngPeer, notNegotiationVars>>

\* signalProvider.on("peer-message") of the provider, an async function that
\* awaits nothing: the sender becomes remotePeerId, and the payload is
\* parsed, rewrapped and handed to webrtcProvider.signal, which throws on a
\* destroyed peer connection.
ProviderHeard(k) ==
  /\ k \in DOMAIN ngWire
  /\ ngWire[k].to = IdOf("provider")
  /\ ngWire' = Delivered(k)
  /\ ngRemotePeerId' = ngWire[k].id
  /\ LET parsed == ProviderRewrap(JSON_parse(ngWire[k].data))
         threw == ngPeer["provider"] # "live"
     IN  /\ ngHeard' = [ngHeard EXCEPT !["provider"] =
                          Append(@, ngWire[k] @@ [threw |-> threw])]
         /\ ngFed' = [ngFed EXCEPT !["provider"] =
                        IF threw THEN @ ELSE Append(@, parsed)]
  /\ UNCHANGED <<ngErrors, ngPeer, notNegotiationVars>>

\* Mutant of ConsumerSignalError: the error ends the negotiation, and what is
\* still to be delivered is dropped.
ConsumerSignalError_fatal ==
  /\ ngErrors["consumer"] < MaxErrors
  /\ ngErrors' = [ngErrors EXCEPT !["consumer"] = @ + 1]
  /\ ngWire' = <<>>
  /\ UNCHANGED <<ngHeard, ngFed, ngRemotePeerId, ngPeer, notNegotiationVars>>

\* signalProvider.on("error") of the consumer: the error is logged.
ConsumerSignalError ==
  /\ ngErrors["consumer"] < MaxErrors
  /\ ngErrors' = [ngErrors EXCEPT !["consumer"] = @ + 1]
  /\ UNCHANGED <<ngWire, ngHeard, ngFed, ngRemotePeerId, ngPeer, notNegotiationVars>>

\* signalProvider.on("error") of the provider: the error is logged.
ProviderSignalError ==
  /\ ngErrors["provider"] < MaxErrors
  /\ ngErrors' = [ngErrors EXCEPT !["provider"] = @ + 1]
  /\ UNCHANGED <<ngWire, ngHeard, ngFed, ngRemotePeerId, ngPeer, notNegotiationVars>>

NextNegotiation ==
  \/ ConsumerNewPeer
  \/ ConsumerPeerClose
  \/ ProviderPeerDisconnect
  \/ ProviderPeerInitialize
  \/ \E data \in Signals("consumer") : ConsumerSignal(data)
  \/ \E data \in Signals("provider") : ProviderSignalled(data)
  \/ ForeignSend(SessionDescription("offer"))
  \/ \E k \in 1..MaxMessages : ConsumerPeerMessage(k)
  \/ \E k \in 1..MaxMessages : ProviderHeard(k)
  \/ ConsumerSignalError
  \/ ProviderSignalError

(***************************************************************************)
(* Consumer streaming: the SimplePeer connect() builds for one session     *)
(* (main.ts 78-100), startStreaming (112-129) and the InputMonitor it       *)
(* builds on the video element.                                            *)
(***************************************************************************)
\* HtmlInputEvents
HtmlInputEvents == { "mousedown", "mouseup", "mousemove", "wheel", "resize" }

\* The InputMonitor events startStreaming gives sendInputToPeer to.
Subscribed == { "mouseup", "mousedown", "mousemove", "wheel" }

\* MouseEvent, WheelEvent and the video element, as far as InputMonitor
\* reads them.
MouseEvents == [clientX : { 110, 135 }, clientY : { 70, 55 }]

WheelEvents == [deltaX : { 0, 4 }, deltaY : { -3, 5 }, deltaZ : { 0 }, deltaMode : { 0 }]

Videos == [clientWidth : { 600, 800 }, clientHeight : { 600 }]

\* video.getBoundingClientRect()
BoundingClientRect == [left |-> 100, top |-> 50]

\* An IInputMessage: {data, type, version: 1}.
InputMessage(type, data) ==
  Set(Set(Set(EmptyObject, "data", data), "type", JsString(type)), "version", JsNumber(1))

\* InputMonitor.generateAndEmitMouse: the message emitted.
generateAndEmitMouse(e, state) ==
  InputMessage("touch",
    Set(EmptyObject, "pointers",
      Set(EmptyArray, "0",
        Set(Set(Set(Set(Set(EmptyObject, "id", JsNumber(1)), "state", JsString(state)),
                    "x", JsNumber(e.clientX - BoundingClientRect.left)),
                "y", JsNumber(e.clientY - BoundingClientRect.top)),
            "z", JsNumber(0)))))

\* InputMonitor.generateAndEmitWheel: the message emitted.
generateAndEmitWheel(event) ==
  InputMessage("wheel",
    Set(EmptyObject, "pointers",
      Set(EmptyArray, "0",
        Set(Set(Set(Set(EmptyObject, "dx", JsNumber(event.deltaX)),
                    "dy", JsNumber(event.deltaY)),
                "dz", JsNumber(event.deltaZ)),
            "mode", JsNumber(event.deltaMode)))))

\* InputMonitor.generateAndEmitResize: the message emitted.
generateAndEmitResize(video) ==
  InputMessage("resize",
    Set(Set(EmptyObject, "width", JsNumber(video.clientWidth)),
        "height", JsNumber(video.clientHeight)))

\* The TouchState the InputMonitor's listener for a mouse event passes on.
TouchStateOf(type) ==
  CASE type = "mousedown" -> "start"
    [] type = "mouseup" -> "end"
    [] type = "mousemove" -> "move"

NoOccurrence == [kind |-> "none", peer |-> "live", monitor |-> FALSE]

\* connect() has built the SimplePeer and registered its handlers.
InitStreaming ==
  /\ stPeer = "live"
  /\ stMonitor = FALSE
  /\ stOccurred = NoOccurrence
  /\ stSent = <<>>

\* peer.on("connect"): logged.
OnPeerConnect ==
  /\ stPeer = "live"
  /\ stPeer' = "connected"
  /\ UNCHANGED <<stMonitor, stOccurred, stSent, notStreamingVars>>

\* peer.on("close"): logged.
OnPeerClose ==
  /\ stPeer \in { "live", "connected" }
  /\ stPeer' = "closed"
  /\ UNCHANGED <<stMonitor, stOccurred, stSent, notStreamingVars>>

\* peer.on("stream"), once the remote description brought the provider's
\* stream: startStreaming plays it, builds an InputMonitor on the video
\* element and gives sendInputToPeer to the Subscribed events.
OnPeerStream ==
  /\ stPeer \in { "live", "connected" }
  /\ ~stMonitor
  /\ stMonitor' = TRUE
  /\ UNCHANGED <<stPeer, stOccurred, stSent, notStreamingVars>>

\* A local input occurrence of `kind`, for which the InputMonitor (if one
\* listens) emits `msg`: sendInputToPeer, where subscribed, calls
\* peer.send(JSON.stringify(msg)).  No listener is ever removed.
Occurs(kind, msg) ==
  /\ stOccurred' = [kind |-> kind, peer |-> stPeer, monitor |-> stMonitor]
  /\ stSent' = IF stMonitor /\ kind \in Subscribed THEN <<JSON_stringify(msg)>> ELSE <<>>
  /\ UNCHANGED <<stPeer, stMonitor, notStreamingVars>>

\* mousedown, mouseup or mousemove on the video element.
OnVideoMouse(type, e) == Occurs(type, generateAndEmitMouse(e, TouchStateOf(type)))

\* wheel on the video element.
OnVideoWheel(event) == Occurs("wheel", generateAndEmitWheel(event))

\* resize of the window.
OnWindowResize(video) == Occurs("resize", generateAndEmitResize(video))

NextStreaming ==
  \/ OnPeerConnect
  \/ OnPeerClose
  \/ OnPeerStream
  \/ \E type \in { "mousedown", "mouseup", "mousemove" }, e \in MouseEvents : OnVideoMouse(type, e)
  \/ \E event \in WheelEvents : OnVideoWheel(event)
  \/ \E video \in Videos : OnWindowResize(video)

(***************************************************************************)
(* Boot of the provider: the main process (node application and main,      *)
(* part_001) stores the streamer's configuration in a global and answers   *)
(* 'getGlobal'; the preload script of the streamer window (stream-provider *)
(* main.ts 44-86) fetches it and boots the browser Application.  The       *)
(* K_... constants stand for the keys they hold.                           *)
(***************************************************************************)
\* true
JsTrue == [p \in { <<>> } |-> <<"boolean", "true">>]

CaptureWindowTitles == { "localhost", "example.org" }

CaptureWindowIds == { 1, 2 }

\* Application.setGlobals(thing): the object stored under K_BROWSER_STORAGE.
\* The logger is an object; the ice servers are an array.
setGlobals(captureWindowTitle, captureWindowId) ==
  LET streamerConfig == Set(EmptyObject, "iceServers", EmptyArray)
      signalConfig ==
        Set(Set(EmptyObject, "pollIntervalMs", JsNumber(1000)),
            "url", JsString("http://signal"))
      g1 == Set(EmptyObject, "K_CAPTURE_WIN", JsString(captureWindowTitle))
      g2 == Set(g1, "K_CAPTURE_WINID", JsNumber(captureWindowId))
      g3 == Set(g2, "K_PRELOAD_LOGGER_KEY", EmptyObject)
      g4 == Set(g3, "K_BROWSER_CONFIG", streamerConfig)
  IN  Set(g4, "K_SIGNAL_CONFIG", signalConfig)

InitPreload ==
  /\ mGlobal = JsUndefined
  /\ prRuns = <<>>

Runs == DOMAIN prRuns

\* Whether some run of the preload script has booted an Application.
Booted == \E r \in Runs : prRuns[r].at = "booted"

\* The node Application's boot() up to setGlobals: the content window exists
\* and the globals are stored.
NodeBoot(captureWindowTitle, captureWindowId) ==
  /\ mGlobal = JsUndefined
  /\ mGlobal' = setGlobals(captureWindowTitle, captureWindowId)
  /\ UNCHANGED <<prRuns, notPreloadVars>>

\* The streamer window, created after setGlobals, loads (or loads again) and
\* runs its preload script: config = {} and 'getGlobal' is invoked.
PreloadInvoke ==
  /\ mGlobal # JsUndefined
  /\ Len(prRuns) < MaxPreloads
  /\ prRuns' = Append(prRuns,
       [at |-> "invoked", afterBoot |-> Booted, reply |-> {}, config |-> EmptyObject])
  /\ UNCHANGED <<mGlobal, notPreloadVars>>

\* ipcMain.handle('getGlobal'): the global is answered as JSON text.
GetGlobal(r) ==
  /\ r \in Runs
  /\ prRuns[r].at = "invoked"
  /\ prRuns' = [prRuns EXCEPT ![r].at = "answered",
                              ![r].reply = JSON_stringify(mGlobal)]
  /\ UNCHANGED <<mGlobal, notPreloadVars>>

\* The preload's callback of ipcRenderer.invoke('getGlobal'): the answer is
\* parsed into config; without the init flag the flag is set on config and
\* an Application is constructed and booted, with it 'could not re-boot' is
\* logged.
PreloadCallback(r) ==
  /\ r \in Runs
  /\ prRuns[r].at = "answered"
  /\ LET config == JSON_parse(prRuns[r].reply)
     IN  prRuns' = [prRuns EXCEPT ![r] =
           IF ~Truthy(Get(config, "K_PRELOAD_INIT_KEY"))
           THEN [@ EXCEPT !.at = "booted",
                          !.config = Set(config, "K_PRELOAD_INIT_KEY", JsTrue)]
           ELSE [@ EXCEPT !.at = "could not re-boot", !.config = config]]
  /\ UNCHANGED <<mGlobal, notPreloadVars>>

NextPreload ==
  \/ \E title \in CaptureWindowTitles, id \in CaptureWindowIds : NodeBoot(title, id)
  \/ PreloadInvoke
  \/ \E r \in 1..MaxPreloads : GetGlobal(r)
  \/ \E r \in 1..MaxPreloads : PreloadCallback(r)

Init ==
  /\ InitInput /\ InitSignIn /\ InitConsumer /\ InitProvider
  /\ InitNegotiation /\ InitStreaming /\ InitPreload

SpecInput == Init /\ [][NextInput]_vars

SpecSignIn == Init /\ [][NextSignIn]_vars

SpecConsumer == Init /\ [][NextConsumer]_vars

\* The signaling channel settles every sign-in, and a settled promise runs
\* its continuation: connect() resumes after `await signIn(...)`.  Clicks,
\* messages and the peer connection's events are not the consumer's to
\* schedule.
FairSpecConsumer ==
  SpecConsumer /\ \A i \in 1..MaxConnects :
                    WF_vars(ConnectAnswered(i) \/ ConnectSignedIn(i) \/ ConnectUnavailable(i))

SpecProvider == Init /\ [][NextProvider]_vars

SpecNegotiation == Init /\ [][NextNegotiation]_vars

SpecStreaming == Init /\ [][NextStreaming]_vars

SpecPreload == Init /\ [][NextPreload]_vars

\* The signaling channel settles every signOut, and a settled promise runs
\* its continuation: the handler suspended at `await signOut()` resumes.
FairSpecProvider ==
  SpecProvider /\ \A h \in Handlers : WF_vars(\E outcome \in SignOutOutcomes : SignedOut(h, outcome))

(***************************************************************************)
(* Claims about the provider's input handler, checked under SpecInput.     *)
(***************************************************************************)
Handling(type) == inMsg.type = type /\ inMsg.version = SupportedVersion

\* The events a touch message is to produce: one per pointer whose state is
\* start, end or move, in pointer order.
RECURSIVE ExpectedTouchActions(_)
ExpectedTouchActions(pointers) ==
  IF pointers = <<>> THEN <<>>
  ELSE LET p == Head(pointers)
           rest == ExpectedTouchActions(Tail(pointers))
           action(type) == [button |-> "left", clickCount |-> 1, type |-> type,
                            x |-> p.x, y |-> p.y]
       IN  CASE p.state = "start" -> <<action("mouseDown")>> \o rest
             [] p.state = "end" -> <<action("mouseUp")>> \o rest
             [] p.state = "move" -> <<action("mouseMove")>> \o rest
             [] OTHER -> rest

InputEvents(events) == [i \in DOMAIN events |-> IpcSend("sendInputEvent", events[i])]

\* C5 (as claimed): a touch, wheel, keyboard or resize message whose version
\* is not 1 raises an error and sends no native action.
C5_UnsupportedVersionRejected ==
  (inMsg.type \in KnownTypes /\ inMsg.version # SupportedVersion)
    => (inRaised # "none" /\ ipcSent = <<>>)

\* C6: a version-1 message of an unknown type raises no error and sends no
\* native action, and a touch message handled after such a message is
\* translated as usual.
C6_UnknownTypeSoftSkip ==
  /\ (inMsg.type \in UnknownTypes /\ inMsg.version = SupportedVersion)
       => (inRaised = "none" /\ ipcSent = <<>>)
  /\ (inPrev.type \in UnknownTypes /\ inPrev.version = SupportedVersion)
       => /\ inPrev.threw = "none"
          /\ Handling("touch")
               => ipcSent = InputEvents(ExpectedTouchActions(inMsg.data.pointers))

C6_Witness ==
  /\ inPrev.type \in UnknownTypes /\ inPrev.version = SupportedVersion
  /\ inPrev.threw = "none"
  /\ Handling("touch")
  /\ Len(ipcSent) = 2

\* C7: a version-1 touch message sends exactly its pointers that are not
\* 'none' (or unrecognised), in order: start as a left mouseDown, end as
\* mouseUp, move as mouseMove, each at the pointer's (x, y).
C7_TouchTranslation ==
  Handling("touch") =>
    /\ inRaised = "none"
    /\ ipcSent = InputEvents(ExpectedTouchActions(inMsg.data.pointers))
    /\ Len(ipcSent) = Cardinality({ i \in DOMAIN inMsg.data.pointers :
                          inMsg.data.pointers[i].state \in { "start", "end", "move" } })

C7_Witness ==
  /\ Handling("touch")
  /\ Len(inMsg.data.pointers) = 2
  /\ inMsg.data.pointers[1].state = "none"
  /\ inMsg.data.pointers[2] = [state |-> "move", x |-> 10, y |-> 20]
  /\ ipcSent = <<IpcSend("sendInputEvent",
                   [button |-> "left", clickCount |-> 1, type |-> "mouseMove",
                    x |-> 10, y |-> 20])>>

\* The keys of the printable pattern: one alphanumeric or listed punctuation
\* character.
PrintableKeys == { <<c>> : c \in PrintableChars }

\* C8: a printable key sends exactly one char action carrying that key when
\* pressed, and nothing in any other state.
C8_PrintableKeys ==
  (Handling("keyboard") /\ inMsg.data.key \in PrintableKeys) =>
    /\ inRaised = "none"
    /\ IF inMsg.data.state = "pressed"
       THEN /\ Len(ipcSent) = 1
            /\ ipcSent[1].channel = "sendInputEvent"
            /\ ipcSent[1].payload.type = "char"
            /\ ipcSent[1].payload.keyCode = inMsg.data.key
       ELSE ipcSent = <<>>

C8_Witness ==
  /\ Handling("keyboard")
  /\ inMsg.data = [key |-> <<"@">>, state |-> "pressed"]
  /\ Len(ipcSent) = 1
  /\ ipcSent[1].payload.type = "char"
  /\ ipcSent[1].payload.keyCode = <<"@">>

\* C9 (as claimed): a key outside the printable pattern whose Title-Cased
\* form matches the special-key pattern sends exactly one keyDown (pressed)
\* or keyUp (otherwise) whose keyCode is the Title-Cased key.
C9_SpecialKeysMatchedCased ==
  (/\ Handling("keyboard")
   /\ inMsg.data.key \notin PrintableKeys
   /\ inMsg.data.key # <<>>
   /\ specialKeyCodes(casedKeyCodeOf(inMsg.data.key))) =>
    /\ Len(ipcSent) = 1
    /\ ipcSent[1].payload.type =
         (IF inMsg.data.state = "pressed" THEN "keyDown" ELSE "keyUp")
    /\ ipcSent[1].payload.keyCode = casedKeyCodeOf(inMsg.data.key)

\* C10: a key that is a modifier name (and matches neither the printable
\* nor the special-key pattern) sends exactly one keyDown (pressed) or keyUp
\* (otherwise) with no keyCode and the cased name as its only modifier.
C10_ModifierKeys ==
  (/\ Handling("keyboard")
   /\ inMsg.data.key \in ModifierNames
   /\ inMsg.data.key \notin PrintableKeys
   /\ ~specialKeyCodes(inMsg.data.key)) =>
    /\ inRaised = "none"
    /\ ipcSent = <<IpcSend("sendInputEvent",
                     [keyCode |-> Undefined,
                      modifiers |-> <<casedKeyCodeOf(inMsg.data.key)>>,
                      type |-> IF inMsg.data.state = "pressed" THEN "keyDown" ELSE "keyUp"])>>

C10_Witness ==
  /\ Handling("keyboard")
  /\ inMsg.data = [key |-> <<"A", "l", "t", "G", "r">>, state |-> "released"]
  /\ ipcSent = <<IpcSend("sendInputEvent",
                   [keyCode |-> Undefined,
                    modifiers |-> << <<"A", "l", "t", "g", "r">> >>,
                    type |-> "keyUp"])>>

\* The keys that match none of the patterns, as received or Title-Cased.
UnmatchedKeys ==
  { key \in Keys :
      /\ key # <<>>
      /\ ~keyCodes(key)
      /\ ~specialKeyCodes(key) /\ ~specialKeyCodes(casedKeyCodeOf(key))
      /\ ~modifiers(key) /\ ~modifiers(casedKeyCodeOf(key)) }

\* C11 (as claimed): a keyboard message whose key matches none of the
\* printable, special-key and modifier patterns sends no native action, in
\* either state.
C11_UnmatchedKeysSendNothing ==
  (Handling("keyboard") /\ inMsg.data.key \in UnmatchedKeys) => ipcSent = <<>>

\* C12: a version-1 wheel message with at least one pointer entry sends
\* exactly one mouseWheel action whose deltaX/deltaY are the dx/dy of the
\* first entry; the action is determined by the first entry alone.
C12_WheelTranslation ==
  (Handling("wheel") /\ inMsg.data.pointers # <<>>) =>
    /\ inRaised = "none"
    /\ ipcSent = <<IpcSend("sendInputEvent",
                     [x |-> 0, y |-> 0, type |-> "mouseWheel",
                      deltaX |-> inMsg.data.pointers[1].dx,
                      deltaY |-> inMsg.data.pointers[1].dy])>>

C12_Witness ==
  /\ Handling("wheel")
  /\ inMsg.data.pointers = <<[dx |-> -3, dy |-> 5], [dx |-> 4, dy |-> -2]>>
  /\ Len(ipcSent) = 1
  /\ ipcSent[1].payload.type = "mouseWheel"
  /\ ipcSent[1].payload.deltaX = -3
  /\ ipcSent[1].payload.deltaY = 5

\* C13: the char action of an uppercase letter carries exactly the Shift
\* modifier, and the char action of a lowercase letter carries no modifier.
C13_ShiftOnUppercase ==
  (/\ Handling("keyboard")
   /\ Len(ipcSent) = 1
   /\ ipcSent[1].payload.type = "char") =>
    LET key == inMsg.data.key
    IN  /\ (Len(key) = 1 /\ key[1] \in Range(UpperLetters))
             => ipcSent[1].payload.modifiers = <<"Shift">>
        /\ (Len(key) = 1 /\ key[1] \in Range(LowerLetters))
             => ipcSent[1].payload.modifiers = <<>>

C13_Witness ==
  /\ Handling("keyboard")
  /\ inMsg.data = [key |-> <<"Q">>, state |-> "pressed"]
  /\ ipcSent = <<IpcSend("sendInputEvent",
                   [keyCode |-> <<"Q">>, modifiers |-> <<"Shift">>, type |-> "char"])>>

(***************************************************************************)
(* Claims about the consumer's signIn, checked under SpecSignIn.           *)
(***************************************************************************)
Eligible(peers, id) == { k \in DOMAIN peers : peers[k].connected /\ peers[k].id # id }

Min(S) == CHOOSE k \in S : \A j \in S : k <= j

Max(S) == CHOOSE k \in S : \A j \in S : k >= j

\* C2 (as claimed): the id signIn returns is the FIRST roster entry that is
\* connected and is not the consumer itself.
C2_FirstEligibleChosen ==
  siCall = "returned" =>
    /\ Eligible(siPeers, siId) # {}
    /\ siResult = siPeers[Min(Eligible(siPeers, siId))].id

\* C2 (amended): whenever the roster holds a connected entry other than the
\* consumer, signIn returns the id of the LAST such entry; with roster
\* [A, B] and self id A that is B.
C2_LastEligibleChosen ==
  /\ siCall = "returned" => Eligible(siPeers, siId) # {}
  /\ (siCall \in { "returned", "threw" } /\ siId # NoId /\ Eligible(siPeers, siId) # {})
       => /\ siCall = "returned"
          /\ siResult = siPeers[Max(Eligible(siPeers, siId))].id

C2_Witness ==
  /\ siCall = "returned"
  /\ siId = "A"
  /\ siPeers = <<[id |-> "A", connected |-> TRUE], [id |-> "B", connected |-> TRUE],
                 [id |-> "C", connected |-> TRUE]>>
  /\ siResult = "C"

(***************************************************************************)
(* Claims about the consumer's connect(), checked under SpecConsumer.      *)
(***************************************************************************)
\* C3: when the roster of a sign-in holds no connected entry other than the
\* consumer, that connect() never gets past its await: resumed, it has failed
\* with signIn's error; it builds no peer connection, sends no Negotiation
\* Message and is not run again by itself.
C3_NoRemoteFound ==
  \A i \in Sessions :
    (cSession[i].signedIn /\ ~cSession[i].hadRemote) =>
      /\ cSession[i].pc \in { "awaitSignIn", "failed" }
      /\ cSession[i].pc = "failed" =>
           cSession[i].error = "Couldn't find any stream provider"
      /\ cSession[i].peer = "none"
      /\ cSession[i].providerId = NoId
      /\ cSession[i].sent = 0

C3_Witness ==
  \E i \in Sessions :
    /\ cSession[i].signedIn /\ ~cSession[i].hadRemote
    /\ cSession[i].pc = "failed"
    /\ cSession[i].handlerThrew
    /\ cSession[i].peer = "none"

\* C4 (as claimed): at most one peer connection is alive and at most one
\* signaling participant is signed in, also after connect() is run again.
C4_SingleSession ==
  /\ Cardinality({ i \in Sessions : cSession[i].peer \in { "live", "connected" } }) <= 1
  /\ Cardinality({ i \in Sessions : cSession[i].signedIn }) <= 1

(***************************************************************************)
(* Claims about the provider's boot(), checked under FairSpecProvider.     *)
(***************************************************************************)
\* The handler of the h-th 'disconnect' has called signIn, with a name no
\* earlier signIn of this provider used.
SignedInAfresh(h) ==
  /\ Len(pHandlers) >= h
  /\ pHandlers[h].at \in { "awaitSignIn", "done", "rejected" }
  /\ LET k == pHandlers[h].call
     IN  /\ k \in DOMAIN pCalls
         /\ pCalls[k].op = "signIn"
         /\ \A j \in 1..(k - 1) :
              pCalls[j].op = "signIn" => pCalls[j].name # pCalls[k].name

\* C1: every 'disconnect' event is eventually followed by a new signIn whose
\* participant name differs from that of every earlier signIn.
C1_DisconnectLeadsToFreshSignIn ==
  \A h \in Handlers : (Len(pHandlers) >= h) ~> SignedInAfresh(h)

C1_Witness ==
  /\ Len(pHandlers) = 2
  /\ SignedInAfresh(1)
  /\ SignedInAfresh(2)
  /\ pHandlers[2].at = "done"

(***************************************************************************)
(* Claims about the negotiation handlers, checked under SpecNegotiation.   *)
(***************************************************************************)
\* The 'peer-message' events of the role whose handler handed its message
\* to the peer connection, in order.
Handled(role) == SelectSeq(ngHeard[role], LAMBDA event : ~event.threw)

\* C14 (as claimed): for every signal delivered in either direction, a
\* wrapped candidate reaches the receiving peer connection with a
\* 'candidate' field equal to the original wrapped candidate (candidate,
\* sdpMLineIndex and sdpMid), and a message without a 'candidate' key
\* reaches it unchanged.
C14_NormalizationRoundTrip ==
  \A role \in Roles : \A k \in DOMAIN ngFed[role] :
    LET original == Handled(role)[k].signal
        fed == ngFed[role][k]
    IN  IF <<"candidate">> \in DOMAIN original
        THEN Get(fed, "candidate") = Get(original, "candidate")
        ELSE fed = original

\* What the role's 'peer-message' handler makes of a payload.
Rewrapped(role, payload) ==
  IF role = "consumer" THEN ConsumerRewrap(JSON_parse(payload))
  ELSE ProviderRewrap(JSON_parse(payload))

\* C15 (as claimed): on both roles the messages fed to the peer connection
\* are the 'peer-message' events of the signaling channel, one for one and
\* in the order of the events: none is dropped, duplicated or reordered.
C15_NegotiationOrder ==
  \A role \in Roles :
    /\ Len(ngFed[role]) = Len(ngHeard[role])
    /\ \A k \in DOMAIN ngHeard[role] :
         ngFed[role][k] = Rewrapped(role, ngHeard[role][k].data)

(***************************************************************************)
(* Claims about the consumer's recovery, checked under FairSpecConsumer.   *)
(***************************************************************************)
\* The consumer has signed out and, after that, signed in under a name no
\* earlier sign-in used.
ConsumerSignedInAfresh ==
  \E k \in DOMAIN cCalls : \E n \in DOMAIN cCalls :
    /\ k < n
    /\ cCalls[k].op = "signOut"
    /\ cCalls[n].op = "signIn"
    /\ \A m \in 1..(n - 1) : cCalls[m].op = "signIn" => cCalls[m].name # cCalls[n].name

\* C16 (as claimed): once a session's peer connection has closed, the
\* consumer eventually signs out and signs in again under a new name.
C16_ConsumerRecovers ==
  \A i \in 1..MaxConnects :
    (i \in Sessions /\ cSession[i].peer = "closed") ~> ConsumerSignedInAfresh

(***************************************************************************)
(* Claims about the consumer's input forwarding, checked under             *)
(* SpecStreaming.                                                          *)
(***************************************************************************)
\* The Input Message type a local input occurrence is to be sent as.
MessageTypeOf(kind) ==
  CASE kind \in { "mousedown", "mouseup", "mousemove" } -> "touch"
    [] kind = "wheel" -> "wheel"
    [] kind = "resize" -> "resize"

\* C17 (as claimed): a mouse, wheel or resize occurrence while the session
\* streams (the peer connected, the remote stream playing) sends exactly one
\* version-1 Input Message of the matching type.
C17_ResizeForwarded ==
  (stOccurred.kind # "none" /\ stOccurred.peer = "connected" /\ stOccurred.monitor) =>
    /\ Len(stSent) = 1
    /\ Get(JSON_parse(stSent[1]), "type") = JsString(MessageTypeOf(stOccurred.kind))
    /\ Get(JSON_parse(stSent[1]), "version") = JsNumber(1)

\* C18 (as claimed): peer.send is invoked only for an occurrence that
\* arrived while the peer was connected, neither before 'connect' nor after
\* 'close'.
C18_InputOnlyWhileStreaming ==
  stSent # <<>> => stOccurred.peer = "connected"

(***************************************************************************)
(* Claims about the provider's failed sign-ins, checked under              *)
(* FairSpecProvider.                                                       *)
(***************************************************************************)
\* The provider called signIn again after its call number k.
SignInCalledAfter(k) ==
  \E n \in DOMAIN pCalls : n > k /\ pCalls[n].op = "signIn"

\* C19 (as claimed): after a sign-in that failed, at boot or in a
\* 'disconnect' handler, the provider eventually calls signIn again.
C19_FailedSignInRetried ==
  /\ (pBoot = "failed" /\ pCalls # <<>>) ~> SignInCalledAfter(1)
  /\ \A h \in Handlers :
       (h \in DOMAIN pHandlers /\ pHandlers[h].at = "rejected")
         ~> (h \in DOMAIN pHandlers /\ SignInCalledAfter(pHandlers[h].call))

(***************************************************************************)
(* Claims about the signaling 'error' handlers, checked under              *)
(* SpecNegotiation.                                                        *)
(***************************************************************************)
\* C20: on both roles a signaling 'error' event is logged and nothing else
\* changes: not the remote participant id, not what the peer connection has
\* been fed, not the messages sent or heard, not the sign-in and sign-out
\* calls, the registrations, the sessions or the handlers of either role.
C20_SignalErrorsOnlyLogged ==
  [][(ngErrors' # ngErrors) =>
       UNCHANGED <<ngWire, ngHeard, ngFed, ngRemotePeerId, ngPeer, notNegotiationVars>>]_vars

C20_Witness ==
  /\ ngErrors["consumer"] = 1
  /\ ngErrors["provider"] = 1
  /\ ngRemotePeerId = IdOf("consumer")
  /\ ngWire # <<>>
  /\ ngFed["provider"] # <<>>
  /\ ngFed["consumer"] # <<>>


(***************************************************************************)
(* Claims about the provider between sign-in and negotiation, checked      *)
(* under SpecProvider.                                                     *)
(***************************************************************************)
\* The boot sign-in has resolved and no 'peer-message' has been handled (each
\* run of the handler assigns remotePeerId).
AwaitingRemote ==
  /\ pRoster # NoRoster
  /\ pRemotePeerId = NoId

C22_SendsGoToFirstSender ==
  [][(pSends' # pSends) =>
       /\ pSends'[Len(pSends')] = pPeer.first
       /\ pSends'[Len(pSends')] # NoId]_vars


(***************************************************************************)
(* Claims about the provider's 'disconnect' handlers running interleaved,  *)
(* checked under SpecProvider.                                             *)
(***************************************************************************)
\* C23 (as claimed): the provider's calls to the signaling channel alternate
\* signIn, signOut, signIn, ... starting with signIn, and the provider is
\* never registered under two participant names at once.
C23_SignInSignOutAlternate ==
  /\ \A k \in DOMAIN pCalls :
       pCalls[k].op = IF k % 2 = 1 THEN "signIn" ELSE "signOut"
  /\ Cardinality(pRegistered) <= 1

\* C24 (as claimed): no 'peer-message' handler hands a Negotiation Message to
\* a peer connection that has emitted 'disconnect' and was not re-initialized.
C24_NoSignalIntoClosedPeer ==
  [][(pRemotePeerId' # pRemotePeerId \/ pThrew' # pThrew \/ pPeer'.signalled > pPeer.signalled)
       => pPeer.state # "closed"]_vars


(***************************************************************************)
(* Claim about the consumer's 'peer-message' handler and the construction  *)
(* of its peer, checked under SpecConsumer.                                *)
(***************************************************************************)
\* C25 (as claimed): in no session has the 'peer-message' handler run, and
\* thrown, while connect() had not constructed the session's peer.
C25_NoMessageBeforePeer ==
  \A i \in Sessions : cSession[i].peer = "none" => ~cSession[i].handlerThrew


(***************************************************************************)
(* Claim about errors of the input translation, checked under SpecInput.   *)
(***************************************************************************)
\* C26 (as claimed): handling a version-1 touch, wheel or keyboard message
\* raises no error, a wheel message without pointers and a keyboard message
\* with the empty key included, and these two send no native action.
C26_TranslationNeverRaises ==
  /\ (Handling("touch") \/ Handling("wheel") \/ Handling("keyboard"))
       => inRaised = "none"
  /\ (\/ Handling("wheel") /\ inMsg.data.pointers = <<>>
      \/ Handling("keyboard") /\ inMsg.data.key = <<>>)
       => ipcSent = <<>>


(***************************************************************************)
(* Claim about the preload's boot-once guard, checked under SpecPreload.   *)
(***************************************************************************)
\* C27 (as claimed): a run of the preload script that started after an
\* earlier run had booted the Application does not boot a second one: once
\* its callback has run, it has reported 'could not re-boot'.
C27_BootOnce ==
  \A r \in Runs :
    (prRuns[r].afterBoot /\ prRuns[r].at \notin { "invoked", "answered" })
      => prRuns[r].at = "could not re-boot"

====
